---- MODULE Spec2Model ----
(***************************************************************************)
(* Model of the MCP bridge service: the MCPClient object that owns the     *)
(* tool-server subprocess and its ClientSession (mcp_client.py), the       *)
(* FastAPI lifespan that connects and cleans it up, and the /chat and      *)
(* /tools request handlers (mcp_api.py).  Every await of a handler is a    *)
(* suspension point: a handler runs from one await to the next as one      *)
(* action, and handlers of different requests interleave at the awaits.    *)
(***************************************************************************)
EXTENDS Integers, Sequences, FiniteSets, TLC

\* ------------------------------------------------------------------ bounds
NumRequests == 2
MaxCleanupCalls == 3

Requests == 1..NumRequests

\* ------------------------------------------------------------ data values
\* Python's None
None == [type |-> "None"]

TextBlock(t) == [type |-> "text", text |-> t]
ImageBlock == [type |-> "image", data |-> "png"]
ToolUseBlock(n, args) == [type |-> "tool_use", name |-> n, input |-> args]

\* argument maps, as sets of <<key, value>> pairs
NoArgs == {}
ToArgs(who) == {<<"to", who>>}

\* what the completion service can answer to the planning POST: the call
\* times out, answers with a non-2xx status, or answers with a content array
PlanContents ==
    { <<>>,
      <<TextBlock("thinking")>>,
      <<ToolUseBlock("none", NoArgs)>>,
      <<TextBlock("thinking"), ToolUseBlock("send_email", ToArgs("alice"))>>,
      <<ToolUseBlock("send_email", ToArgs("bob")), ToolUseBlock("none", NoArgs)>> }

PlanReplies ==
    { [kind |-> "timeout"], [kind |-> "http_error"] }
      \cup { [kind |-> "ok", content |-> c] : c \in PlanContents }

\* what the completion service can answer to the phrasing POST
RespondContents ==
    { <<>>,
      <<ToolUseBlock("none", NoArgs)>>,
      <<TextBlock("answer one")>>,
      <<TextBlock("answer two"), TextBlock("extra")>> }

RespondReplies ==
    { [kind |-> "timeout"], [kind |-> "http_error"] }
      \cup { [kind |-> "ok", content |-> c] : c \in RespondContents }

\* what session.call_tool can produce: it raises (the protocol reports an
\* error), or it returns a CallToolResult; a tool that failed is reported as
\* a result with isError set and the failure text as content
ToolResults ==
    { [kind |-> "raises"],
      [kind |-> "result", isError |-> FALSE, content |-> <<TextBlock("sent")>>],
      [kind |-> "result", isError |-> TRUE,  content |-> <<TextBlock("address not found")>>],
      [kind |-> "result", isError |-> FALSE, content |-> <<>>],
      [kind |-> "result", isError |-> FALSE,
       content |-> <<ImageBlock, TextBlock("sent")>>] }

\* tool entries as the session returns them
Tool(n) == [name |-> n, description |-> "d-" \o n, inputSchema |-> "s-" \o n]

ServerToolLists ==
    { <<>>,
      <<Tool("send_email")>>,
      <<Tool("send_email"), Tool("read_email")>>,
      <<Tool("read_email"), Tool("send_email")>> }

\* ------------------------------------------------ pure parts of the code
\* get_mcp_tools: the list comprehension over tools_result.tools
Descriptor(tool) ==
    [name |-> tool.name, description |-> tool.description,
     input_schema |-> tool.inputSchema]

\* get_mcp_tools that returns the descriptors sorted by name
get_mcp_tools_sorted(serverTools) ==
    IF Len(serverTools) = 2 /\ serverTools[1].name = "send_email"
      THEN <<Descriptor(serverTools[2]), Descriptor(serverTools[1])>>
      ELSE [i \in 1..Len(serverTools) |-> Descriptor(serverTools[i])]

get_mcp_tools(serverTools) ==
    [i \in 1..Len(serverTools) |-> Descriptor(serverTools[i])]

\* generate_plan with a default: "none" is planned when no tool_use item is found
RECURSIVE FirstToolUseOrDefault(_)
FirstToolUseOrDefault(content) ==
    IF content = <<>> THEN ToolUseBlock("none", NoArgs)
    ELSE IF Head(content).type = "tool_use" THEN Head(content)
    ELSE FirstToolUseOrDefault(Tail(content))

\* generate_plan: the loop that picks the first tool_use item, None if none
RECURSIVE FirstToolUse(_)
FirstToolUse(content) ==
    IF content = <<>> THEN None
    ELSE IF Head(content).type = "tool_use" THEN Head(content)
    ELSE FirstToolUse(Tail(content))

\* the exception generate_plan's handler catches for a reply ("none": none)
PlanException(reply) ==
    IF reply.kind = "timeout" THEN "TimeoutException"
    ELSE IF reply.kind = "http_error" THEN "HTTPStatusError"
    ELSE "none"

\* generate_plan whose handler answers a failed POST with the "none" plan
generate_plan_fallback(reply) ==
    IF PlanException(reply) # "none" THEN ToolUseBlock("none", NoArgs)
    ELSE FirstToolUse(reply.content)

\* generate_plan's return value for a reply of the completion service: the
\* handler prints the exception and falls off the end, which returns None
generate_plan(reply) ==
    IF PlanException(reply) # "none" THEN None
    ELSE FirstToolUse(reply.content)

\* chat without the test of step 2
IsNoToolNever(plan) == FALSE

\* chat, step 2: the test that decides the direct path
IsNoTool(plan) == plan.name = "none"

\* chat, step 3: result.content[0].text, or the exception that raises
ToolTextException(result) ==
    IF result.kind = "raises" THEN "McpError"
    ELSE IF result.content = <<>> THEN "IndexError"
    ELSE IF Head(result.content).type # "text" THEN "AttributeError"
    ELSE "none"

ToolText(result) == Head(result.content).text

\* the exception generate_user_response's handler catches ("none": none)
RespondException(reply) ==
    IF reply.kind = "timeout" THEN "TimeoutException"
    ELSE IF reply.kind = "http_error" THEN "HTTPStatusError"
    ELSE IF reply.content = <<>> THEN "IndexError"
    ELSE IF Head(reply.content).type # "text" THEN "KeyError"
    ELSE "none"

\* generate_user_response's return value: result["content"][0]["text"], or
\* None when the handler swallowed an exception
generate_user_response(reply) ==
    IF RespondException(reply) # "none" THEN None
    ELSE [type |-> "str", text |-> Head(reply.content).text]

\* ChatResponse(response=x): the pydantic model accepts only a string
ChatResponseValid(x) == x.type = "str"

\* the HTTPException chat and list_tools raise: status 500, detail str(e)
HttpError(excType) == [kind |-> "error", status |-> 500, detail |-> excType]

\* chat that answers with a fixed text instead of the phrased answer
ChatReturnCanned(x) ==
    IF ChatResponseValid(x)
      THEN [kind |-> "response", response |-> [type |-> "str", text |-> "done"]]
      ELSE HttpError("ValidationError")

\* chat's return for a phrased answer x: the ChatResponse, or the 500 the
\* failed validation of ChatResponse turns into
ChatReturn(x) ==
    IF ChatResponseValid(x) THEN [kind |-> "response", response |-> x]
    ELSE HttpError("ValidationError")

NoOutcome == [kind |-> "none"]

\* AsyncExitStack.aclose: the contexts are exited last-in first-out and the
\* stack is left empty
RECURSIVE Reverse(_)
Reverse(s) == IF s = <<>> THEN <<>> ELSE Append(Reverse(Tail(s)), Head(s))

ExitOrder(stack) == Reverse(stack)

\* an exit stack that keeps its contexts after closing them
StackKept(stack) == stack

StackAfterClose(stack) == <<>>

\* connect_to_server without the os.path.exists test
PathCheckSkipped(exists) == FALSE

\* connect_to_server: the os.path.exists test
PathCheckFails(exists) == ~exists

\* lifespan without its finally block: a failed startup just ends
WithoutFinally == "exited"

\* lifespan: where control goes when connect_to_server raised
AfterStartupFailure == "finally"

InSeq(x, s) == \E i \in 1..Len(s) : s[i] = x

\* ------------------------------------------------------------------ state
VARIABLES
    lifePc,        \* position of lifespan / connect_to_server
    pathExists,    \* whether the server script exists on disk
    exit_stack,    \* MCPClient.exit_stack: the entered contexts, oldest first
    session,       \* MCPClient.session: "None" or "ClientSession"
    initialized,   \* session.initialize() has returned
    sessionClosed, \* the ClientSession context has been exited
    procRunning,   \* the tool-server subprocess is running
    spawnCount,    \* subprocesses spawned so far
    startupError,  \* the exception connect_to_server raised, "none" if none
    cleanupCalls,  \* calls of MCPClient.cleanup so far
    exitLog,       \* contexts exited so far, in order
    cleanupPrinted,\* cleanup caught and printed an exception
    pc,            \* per request: position of its handler
    kind,          \* per request: "chat" or "tools"
    planReply,     \* per request: what the planning POST produced
    plan,          \* per request: the plan generate_plan returned
    planExc,       \* per request: exception generate_plan swallowed
    toolRes,       \* per request: what session.call_tool produced
    respExc,       \* per request: exception generate_user_response swallowed
    calls,         \* per request: the external calls made, in order
    outcome,       \* per request: what the HTTP caller received
    pending,       \* requests written to the session and not yet answered
    listRes,       \* per request, GET /tools: what session.list_tools returned
    answer,        \* per request: what generate_user_response returned
    emailPc,       \* EmailService.send_email: position of a call
    emailArgs,     \* EmailService.send_email: the arguments of the call
    emailResult,   \* EmailService.send_email: how the call ended
    sent           \* messages handed to the mail service, in order

lifeVars == <<lifePc, pathExists, exit_stack, session, initialized,
              sessionClosed, procRunning, spawnCount, startupError,
              cleanupCalls, exitLog, cleanupPrinted>>
clientVars == <<exit_stack, session, initialized, sessionClosed, procRunning,
                spawnCount, exitLog>>
reqVars == <<pc, kind, planReply, plan, planExc, toolRes, respExc, calls, outcome,
             pending, listRes, answer>>
emailVars == <<emailPc, emailArgs, emailResult, sent>>
vars == <<lifePc, pathExists, exit_stack, session, initialized,
          sessionClosed, procRunning, spawnCount, startupError,
          cleanupCalls, exitLog, cleanupPrinted,
          pc, kind, planReply, plan, planExc, toolRes, respExc, calls, outcome,
          pending, listRes, answer, emailPc, emailArgs, emailResult, sent>>

\* the service before startup: MCPClient() and no request
ServiceInit ==
    /\ lifePc = "path_check"
    /\ pathExists \in BOOLEAN
    /\ exit_stack = <<>>
    /\ session = "None"
    /\ initialized = FALSE
    /\ sessionClosed = FALSE
    /\ procRunning = FALSE
    /\ spawnCount = 0
    /\ startupError = "none"
    /\ cleanupCalls = 0
    /\ exitLog = <<>>
    /\ cleanupPrinted = FALSE
    /\ pc = [r \in Requests |-> "idle"]
    /\ kind = [r \in Requests |-> "none"]
    /\ planReply = [r \in Requests |-> None]
    /\ plan = [r \in Requests |-> None]
    /\ planExc = [r \in Requests |-> "none"]
    /\ toolRes = [r \in Requests |-> None]
    /\ respExc = [r \in Requests |-> "none"]
    /\ calls = [r \in Requests |-> <<>>]
    /\ outcome = [r \in Requests |-> NoOutcome]
    /\ pending = {}
    /\ listRes = [r \in Requests |-> None]
    /\ answer = [r \in Requests |-> None]

\* no call of the email tool
EmailIdle ==
    /\ emailPc = "idle"
    /\ emailArgs = None
    /\ emailResult = None
    /\ sent = <<>>

Init == ServiceInit /\ EmailIdle

\* ------------------------------------------------- lifespan and MCPClient
\* startup failed: connect_to_server raised e, lifespan's finally runs next
StartupFails(e) ==
    /\ startupError' = e
    /\ lifePc' = AfterStartupFailure

\* connect_to_server: abspath and the os.path.exists test
ConnectPathCheck ==
    /\ lifePc = "path_check"
    /\ IF PathCheckFails(pathExists)
         THEN StartupFails("FileNotFoundError")
         ELSE lifePc' = "spawn" /\ UNCHANGED startupError
    /\ UNCHANGED <<pathExists, exit_stack, session, initialized, sessionClosed,
                   procRunning, spawnCount, cleanupCalls, exitLog, cleanupPrinted>>
    /\ UNCHANGED reqVars
    /\ UNCHANGED emailVars

\* connect_to_server: enter stdio_client, which spawns the subprocess
ConnectSpawn ==
    /\ lifePc = "spawn"
    /\ \E ok \in BOOLEAN :
         IF ok
           THEN /\ procRunning' = TRUE
                /\ spawnCount' = spawnCount + 1
                /\ exit_stack' = Append(exit_stack, "stdio")
                /\ lifePc' = "create_session"
                /\ UNCHANGED startupError
           ELSE /\ StartupFails("OSError")
                /\ UNCHANGED <<procRunning, spawnCount, exit_stack>>
    /\ UNCHANGED <<pathExists, session, initialized, sessionClosed,
                   cleanupCalls, exitLog, cleanupPrinted>>
    /\ UNCHANGED reqVars
    /\ UNCHANGED emailVars

\* connect_to_server: enter ClientSession and keep it in self.session
ConnectCreateSession ==
    /\ lifePc = "create_session"
    /\ \E ok \in BOOLEAN :
         IF ok
           THEN /\ session' = "ClientSession"
                /\ exit_stack' = Append(exit_stack, "session")
                /\ lifePc' = "initialize"
                /\ UNCHANGED startupError
           ELSE /\ StartupFails("SessionError")
                /\ UNCHANGED <<session, exit_stack>>
    /\ UNCHANGED <<pathExists, initialized, sessionClosed, procRunning,
                   spawnCount, cleanupCalls, exitLog, cleanupPrinted>>
    /\ UNCHANGED reqVars
    /\ UNCHANGED emailVars

\* connect_to_server that returns without awaiting the handshake
ConnectWithoutInitialize ==
    /\ lifePc = "initialize"
    /\ lifePc' = "serving"
    /\ UNCHANGED <<pathExists, exit_stack, session, initialized, sessionClosed,
                   procRunning, spawnCount, startupError, cleanupCalls,
                   exitLog, cleanupPrinted>>
    /\ UNCHANGED <<pc, kind, planReply, plan, planExc, toolRes, respExc, calls,
                   outcome, pending, listRes, answer>>
    /\ UNCHANGED emailVars

\* connect_to_server: await self.session.initialize(), then lifespan yields
ConnectInitialize ==
    /\ lifePc = "initialize"
    /\ \E ok \in BOOLEAN :
         IF ok
           THEN /\ initialized' = TRUE
                /\ lifePc' = "serving"
                /\ UNCHANGED startupError
           ELSE /\ StartupFails("McpError")
                /\ UNCHANGED initialized
    /\ UNCHANGED <<pathExists, exit_stack, session, sessionClosed, procRunning,
                   spawnCount, cleanupCalls, exitLog, cleanupPrinted>>
    /\ UNCHANGED reqVars
    /\ UNCHANGED emailVars

\* the server stops: uvicorn lets the requests in flight finish, then resumes
\* lifespan after its yield
Shutdown ==
    /\ lifePc = "serving"
    /\ \A r \in Requests : pc[r] \in {"idle", "done"}
    /\ lifePc' = "finally"
    /\ UNCHANGED <<pathExists, exit_stack, session, initialized, sessionClosed,
                   procRunning, spawnCount, startupError, cleanupCalls,
                   exitLog, cleanupPrinted>>
    /\ UNCHANGED reqVars
    /\ UNCHANGED emailVars

\* MCPClient.cleanup: exit_stack.aclose() exits every entered context, the
\* session first and the stdio transport (which ends the subprocess) last; an
\* exception of an exit is caught and printed.  sessionExitRaises: whether
\* the ClientSession's exit raises.
cleanup(sessionExitRaises) ==
    /\ cleanupCalls' = cleanupCalls + 1
    /\ exitLog' = exitLog \o ExitOrder(exit_stack)
    /\ exit_stack' = StackAfterClose(exit_stack)
    /\ sessionClosed' = (sessionClosed \/ InSeq("session", ExitOrder(exit_stack)))
    /\ procRunning' = (procRunning /\ ~InSeq("stdio", ExitOrder(exit_stack)))
    /\ cleanupPrinted' = (sessionExitRaises /\ InSeq("session", ExitOrder(exit_stack)))
    /\ UNCHANGED <<session, initialized, spawnCount>>

\* lifespan's finally block
LifespanFinally ==
    /\ lifePc = "finally"
    /\ \E raises \in BOOLEAN : cleanup(raises)
    /\ lifePc' = "exited"
    /\ UNCHANGED <<pathExists, startupError>>
    /\ UNCHANGED reqVars
    /\ UNCHANGED emailVars

\* a further call of MCPClient.cleanup on the client after it was cleaned up
CleanupAgain ==
    /\ lifePc = "exited"
    /\ cleanupCalls < MaxCleanupCalls
    /\ \E raises \in BOOLEAN : cleanup(raises)
    /\ UNCHANGED <<lifePc, pathExists, startupError>>
    /\ UNCHANGED reqVars
    /\ UNCHANGED emailVars

\* ------------------------------------------------------ request handlers
\* a service that still runs handlers after lifespan resumed from its yield
AcceptingAfterShutdown == lifePc \in {"serving", "finally", "exited"}

\* a service that stops running handlers once a request has failed
AcceptingUntilFailure ==
    /\ lifePc = "serving"
    /\ \A q \in Requests : outcome[q].kind # "error"

\* the service runs handlers only between lifespan's yield and its shutdown
Accepting == lifePc = "serving"

\* a request is written to the shared session / its response is read
SessionRequest(r, method) == pending' = pending \cup {<<r, method>>}
SessionResponse(r, method) == pending' = pending \ {<<r, method>>}

\* the external calls cs are made for r, in order
Calls(r, cs) == calls' = [calls EXCEPT ![r] = @ \o cs]

\* a call that is made again right after it was made
CallRetried(r, c) == Calls(r, <<c, c>>)

Call(r, c) == Calls(r, <<c>>)

\* request.message of r: every request carries its own message
Message(r) == r

\* a handler that closes the shared session as it goes
HandlerFrameClosing ==
    /\ sessionClosed' = TRUE
    /\ UNCHANGED <<lifePc, pathExists, exit_stack, session, initialized,
                   procRunning, spawnCount, startupError, cleanupCalls,
                   exitLog, cleanupPrinted>>

\* chat, list_tools and get_mcp_tools assign nothing of the client or of lifespan
HandlerFrame == UNCHANGED lifeVars

\* the call_tool request without the plan's arguments
ToolCallNoArguments(p) == [op |-> "call_tool", name |-> p.name, arguments |-> NoArgs]

\* chat, step 3: session.call_tool(plan['name'], arguments=plan['input'])
ToolCall(p) == [op |-> "call_tool", name |-> p.name, arguments |-> p.input]

\* chat, steps 2 and 4: generate_user_response(request.message, tool_result)
RespondCall(r, tool_result) ==
    [op |-> "respond", message |-> Message(r), tool_result |-> tool_result]

\* the handler of r ends: its caller receives o
Finish(r, o) ==
    /\ outcome' = [outcome EXCEPT ![r] = o]
    /\ pc' = [pc EXCEPT ![r] = "done"]

\* POST /chat arrives: chat calls generate_plan, which awaits get_mcp_tools,
\* which awaits session.list_tools()
AcceptChat(r) ==
    /\ Accepting
    /\ pc[r] = "idle"
    /\ kind' = [kind EXCEPT ![r] = "chat"]
    /\ Calls(r, << [op |-> "generate_plan", message |-> Message(r)],
                   [op |-> "list_tools"] >>)
    /\ SessionRequest(r, "list_tools")
    /\ pc' = [pc EXCEPT ![r] = "list_wait"]
    /\ UNCHANGED <<planReply, plan, planExc, toolRes, respExc, outcome,
                   listRes, answer>>
    /\ HandlerFrame
    /\ UNCHANGED emailVars

\* GET /tools arrives: list_tools awaits get_mcp_tools
AcceptTools(r) ==
    /\ Accepting
    /\ pc[r] = "idle"
    /\ kind' = [kind EXCEPT ![r] = "tools"]
    /\ Call(r, [op |-> "list_tools"])
    /\ SessionRequest(r, "list_tools")
    /\ pc' = [pc EXCEPT ![r] = "list_wait"]
    /\ UNCHANGED <<planReply, plan, planExc, toolRes, respExc, outcome,
                   listRes, answer>>
    /\ HandlerFrame
    /\ UNCHANGED emailVars

\* GET /tools: session.list_tools() returns or raises
ToolsListReturn(r) ==
    /\ pc[r] = "list_wait"
    /\ kind[r] = "tools"
    /\ SessionResponse(r, "list_tools")
    /\ \E res \in {[kind |-> "raises"]}
                    \cup {[kind |-> "tools", tools |-> l] : l \in ServerToolLists} :
         /\ listRes' = [listRes EXCEPT ![r] = res]
         /\ IF res.kind = "raises"
              THEN Finish(r, HttpError("McpError"))
              ELSE Finish(r, [kind |-> "tools", tools |-> get_mcp_tools(res.tools)])
    /\ UNCHANGED <<kind, planReply, plan, planExc, toolRes, respExc, calls, answer>>
    /\ HandlerFrame
    /\ UNCHANGED emailVars

\* chat that keeps waiting for a plan when generate_plan returned None
ChatPlanMissingHangs(r) == UNCHANGED <<outcome, pc>>

\* chat, after generate_plan returned None: plan['name'] raises TypeError,
\* which chat's handler turns into the 500
ChatPlanMissing(r) == Finish(r, HttpError("TypeError"))

\* generate_plan that goes on to the planning POST after list_tools raised
ChatListFailedContinues(r) ==
    /\ planExc' = [planExc EXCEPT ![r] = "McpError"]
    /\ Call(r, [op |-> "plan"])
    /\ pc' = [pc EXCEPT ![r] = "plan_wait"]
    /\ UNCHANGED outcome

\* generate_plan: get_mcp_tools raised inside the try; the handler swallows
\* the exception, generate_plan returns None and chat fails on it
ChatListFailed(r) ==
    /\ planExc' = [planExc EXCEPT ![r] = "McpError"]
    /\ ChatPlanMissing(r)
    /\ UNCHANGED calls

\* POST /chat, in generate_plan: session.list_tools() returns and the planning
\* POST (carrying the tool list) is sent, or it raises and generate_plan's
\* handler swallows the exception
ChatListReturn(r) ==
    /\ pc[r] = "list_wait"
    /\ kind[r] = "chat"
    /\ SessionResponse(r, "list_tools")
    /\ \E res \in {[kind |-> "raises"]}
                    \cup {[kind |-> "tools", tools |-> l] : l \in ServerToolLists} :
         IF res.kind = "raises"
           THEN ChatListFailed(r)
           ELSE /\ Call(r, [op |-> "plan"])
                /\ pc' = [pc EXCEPT ![r] = "plan_wait"]
                /\ UNCHANGED <<planExc, outcome>>
    /\ UNCHANGED <<kind, planReply, plan, toolRes, respExc, listRes, answer>>
    /\ HandlerFrame
    /\ UNCHANGED emailVars

\* POST /chat: the planning POST ends; generate_plan returns; chat takes the
\* direct path (step 2) or writes the call_tool request (step 3)
PlanReturn(r) ==
    /\ pc[r] = "plan_wait"
    /\ \E reply \in PlanReplies :
         LET p == generate_plan(reply) IN
           /\ planReply' = [planReply EXCEPT ![r] = reply]
           /\ planExc' = [planExc EXCEPT ![r] = PlanException(reply)]
           /\ plan' = [plan EXCEPT ![r] = p]
           /\ IF p = None
                THEN /\ ChatPlanMissing(r)
                     /\ UNCHANGED <<calls, pending>>
                ELSE IF IsNoTool(p)
                  THEN /\ Call(r, RespondCall(r, None))
                       /\ pc' = [pc EXCEPT ![r] = "respond_wait"]
                       /\ UNCHANGED <<outcome, pending>>
                  ELSE /\ Call(r, ToolCall(p))
                       /\ SessionRequest(r, "call_tool")
                       /\ pc' = [pc EXCEPT ![r] = "tool_wait"]
                       /\ UNCHANGED outcome
    /\ UNCHANGED <<kind, toolRes, respExc, listRes, answer>>
    /\ HandlerFrame
    /\ UNCHANGED emailVars

\* POST /chat: session.call_tool ends; chat reads result.content[0].text and
\* sends the phrasing POST with it, or an exception ends the request
ToolReturn(r) ==
    /\ pc[r] = "tool_wait"
    /\ SessionResponse(r, "call_tool")
    /\ \E res \in ToolResults :
         /\ toolRes' = [toolRes EXCEPT ![r] = res]
         /\ IF ToolTextException(res) # "none"
              THEN /\ Finish(r, HttpError(ToolTextException(res)))
                   /\ UNCHANGED calls
              ELSE /\ Call(r, RespondCall(r, [result |-> ToolText(res)]))
                   /\ pc' = [pc EXCEPT ![r] = "respond_wait"]
                   /\ UNCHANGED outcome
    /\ UNCHANGED <<kind, planReply, plan, planExc, respExc, listRes, answer>>
    /\ HandlerFrame
    /\ UNCHANGED emailVars

\* POST /chat: the phrasing POST ends; generate_user_response returns and
\* chat builds its ChatResponse
RespondReturn(r) ==
    /\ pc[r] = "respond_wait"
    /\ \E reply \in RespondReplies :
         /\ respExc' = [respExc EXCEPT ![r] = RespondException(reply)]
         /\ answer' = [answer EXCEPT ![r] = generate_user_response(reply)]
         /\ Finish(r, ChatReturn(generate_user_response(reply)))
    /\ UNCHANGED <<kind, planReply, plan, planExc, toolRes, calls, pending, listRes>>
    /\ HandlerFrame
    /\ UNCHANGED emailVars

\* ------------------------------------------------------- specifications
Lifecycle ==
    \/ ConnectPathCheck
    \/ ConnectSpawn
    \/ ConnectCreateSession
    \/ ConnectInitialize
    \/ Shutdown
    \/ LifespanFinally

Handlers ==
    \E r \in Requests :
        \/ AcceptChat(r)
        \/ AcceptTools(r)
        \/ ToolsListReturn(r)
        \/ ChatListReturn(r)
        \/ PlanReturn(r)
        \/ ToolReturn(r)
        \/ RespondReturn(r)

Next == Lifecycle \/ Handlers

Spec == Init /\ [][Next]_vars

\* the service, with a caller that calls MCPClient.cleanup again afterwards
NextReclose == Next \/ CleanupAgain

SpecReclose == Init /\ [][NextReclose]_vars

TypeOK ==
    /\ lifePc \in {"path_check", "spawn", "create_session", "initialize",
                   "serving", "finally", "exited"}
    /\ session \in {"None", "ClientSession"}
    /\ \A r \in Requests :
         /\ pc[r] \in {"idle", "list_wait", "plan_wait", "tool_wait",
                       "respond_wait", "done"}
         /\ kind[r] \in {"none", "chat", "tools"}

\* ------------------------------------------------------------ properties
HasCall(r, o) == \E i \in 1..Len(calls[r]) : calls[r][i].op = o

Done(r) == pc[r] = "done"

Failed(r) == outcome[r].kind = "error" /\ outcome[r].status = 500

\* the planning POST of r was answered with content holding no tool_use item
NoToolUseReply(r) ==
    /\ planReply[r] # None
    /\ planReply[r].kind = "ok"
    /\ \A i \in 1..Len(planReply[r].content) :
         planReply[r].content[i].type # "tool_use"

\* the planning POST of r timed out or its transport failed
PlanPostFailed(r) ==
    /\ planReply[r] # None
    /\ planReply[r].kind \in {"timeout", "http_error"}

\* the tool call of r failed: the protocol raised, or the tool reported an error
ToolFailed(r) ==
    /\ toolRes[r] # None
    /\ \/ toolRes[r].kind = "raises"
       \/ toolRes[r].kind = "result" /\ toolRes[r].isError

\* C1: a request whose plan names the tool "none" never calls call_tool, and
\* a request that called call_tool has a plan naming another tool.
C1_NonePlanNeverInvokesTool ==
    \A r \in Requests :
        /\ (plan[r] # None /\ plan[r].name = "none") => ~HasCall(r, "call_tool")
        /\ HasCall(r, "call_tool") => (plan[r] # None /\ plan[r].name # "none")

C1_Witness ==
    \E r \in Requests :
        /\ Done(r)
        /\ plan[r] # None /\ plan[r].name = "none"
        /\ HasCall(r, "respond")
        /\ outcome[r].kind = "response"

\* C2: when the planning reply holds no tool_use item, the request ends with
\* an error (the 500), no plan is substituted, and neither call_tool nor the
\* phrasing call is made.
C2_NoToolUseFails ==
    \A r \in Requests :
        NoToolUseReply(r) =>
            /\ Done(r) /\ Failed(r)
            /\ plan[r] = None
            /\ ~HasCall(r, "call_tool")
            /\ ~HasCall(r, "respond")

C2_Witness ==
    \E r \in Requests :
        /\ NoToolUseReply(r)
        /\ planReply[r].content # <<>>
        /\ Done(r) /\ Failed(r)

\* C3: when the planning POST times out or its transport fails, the request
\* ends with an error (the 500) and neither call_tool nor the phrasing call
\* is made.
C3_PlanTimeoutFails ==
    \A r \in Requests :
        PlanPostFailed(r) =>
            /\ Done(r) /\ Failed(r)
            /\ ~HasCall(r, "call_tool")
            /\ ~HasCall(r, "respond")

C3_Witness ==
    \E r \in Requests :
        /\ planReply[r] # None /\ planReply[r].kind = "timeout"
        /\ planExc[r] = "TimeoutException"
        /\ Done(r) /\ Failed(r)

\* C4: when the tool call of a request fails (the protocol raises or the
\* tool reports an error), the phrasing call is never made for it and the
\* request ends with an error and no response text.
C4_ToolFailureAborts ==
    \A r \in Requests :
        ToolFailed(r) =>
            /\ ~HasCall(r, "respond")
            /\ Done(r) => Failed(r)

\* C5: at most one request (list_tools or call_tool) is outstanding on the
\* shared session at any time.
C5_OneOutstandingRequest == Cardinality(pending) <= 1

\* C6: a list_tools or call_tool request is issued on the session only after
\* the initialize handshake completed; none is issued while startup is in
\* progress or after it failed.
C6_InitializedBeforeRequests ==
    /\ pending # {} => (initialized /\ lifePc = "serving")
    /\ \A r \in Requests : calls[r] # <<>> => initialized
    /\ (startupError # "none" \/ ~initialized) =>
           \A r \in Requests : pc[r] = "idle"

C6_Witness ==
    /\ initialized
    /\ \E r \in Requests : <<r, "call_tool">> \in pending

\* C7: whenever the lifecycle has ended, by a failed startup or by shutdown,
\* cleanup has run and the subprocess is not running.
C7_CleanupOnEveryExit ==
    lifePc = "exited" => (cleanupCalls >= 1 /\ ~procRunning /\ exit_stack = <<>>)

C7_Witness ==
    /\ lifePc = "exited"
    /\ startupError = "McpError"
    /\ spawnCount = 1
    /\ cleanupCalls = 1
    /\ ~procRunning

\* C8: when the server script does not exist, startup fails at the path
\* check with the file-not-found error, no subprocess is ever spawned, and
\* the service never serves a request.
C8_MissingPathFailsStartup ==
    ~pathExists =>
        /\ lifePc \in {"path_check", "finally", "exited"}
        /\ lifePc # "path_check" => startupError = "FileNotFoundError"
        /\ spawnCount = 0
        /\ ~procRunning
        /\ \A r \in Requests : pc[r] = "idle"

C8_Witness ==
    /\ ~pathExists
    /\ lifePc = "exited"
    /\ startupError = "FileNotFoundError"

\* C9: a call of cleanup on a client that is already cleaned up, or that
\* never opened anything, changes nothing of the client and meets no
\* exception.
C9_CloseIdempotent ==
    [][ ( cleanupCalls' = cleanupCalls + 1
          /\ (cleanupCalls >= 1 \/ exit_stack = <<>>) )
        => ( UNCHANGED clientVars /\ ~cleanupPrinted' ) ]_vars

C9_Witness ==
    /\ cleanupCalls >= 2
    /\ exitLog = <<"session", "stdio">>
    /\ exit_stack = <<>>

\* a step of chat's pipeline failed for r
StepFailed(r) ==
    \/ planExc[r] # "none"
    \/ NoToolUseReply(r)
    \/ ToolFailed(r)
    \/ (toolRes[r] # None /\ ToolTextException(toolRes[r]) # "none")
    \/ respExc[r] # "none"

\* C10: a chat request in which the plan step, the tool step or the phrasing
\* step failed ends with an error and never with a response.
C10_AnyFailureAborts ==
    \A r \in Requests :
        (kind[r] = "chat" /\ Done(r) /\ StepFailed(r)) => Failed(r)

CountCalls(r, o) == Len(SelectSeq(calls[r], LAMBDA c : c.op = o))

\* the first call of kind o that r made
TheCall(r, o) == calls[r][CHOOSE i \in 1..Len(calls[r]) : calls[r][i].op = o]

\* the plan of r names a tool other than "none"
ToolPlanned(r) == plan[r] # None /\ plan[r].name # "none"

\* call_tool of r returned a result whose first content block is a text block
FirstBlockIsText(r) ==
    /\ toolRes[r] # None
    /\ toolRes[r].kind = "result"
    /\ toolRes[r].content # <<>>
    /\ Head(toolRes[r].content).type = "text"

\* the first text-typed block of a content sequence, None if there is none
RECURSIVE FirstTextBlock(_)
FirstTextBlock(content) ==
    IF content = <<>> THEN None
    ELSE IF Head(content).type = "text" THEN Head(content)
    ELSE FirstTextBlock(Tail(content))

\* call_tool of r succeeded with a result that holds a text block
ToolGaveText(r) ==
    /\ toolRes[r] # None
    /\ toolRes[r].kind = "result"
    /\ ~toolRes[r].isError
    /\ FirstTextBlock(toolRes[r].content) # None

\* chat made exactly one call_tool for r, with the plan's name and arguments
OneToolCallAsPlanned(r) ==
    /\ CountCalls(r, "call_tool") = 1
    /\ TheCall(r, "call_tool").name = plan[r].name
    /\ TheCall(r, "call_tool").arguments = plan[r].input

\* when the phrasing call returned text, the caller received exactly it
OutputIsAnswer(r) ==
    (Done(r) /\ answer[r] # None) =>
        outcome[r] = [kind |-> "response", response |-> answer[r]]

NonePlanned(r) == plan[r] # None /\ plan[r].name = "none"

\* C12: with the plan "none", respond is called exactly once, with the
\* request's message and no tool result, and the output the caller receives
\* is the text respond returned (an error when respond returned none).
C12_DirectPathOutput ==
    \A r \in Requests :
        NonePlanned(r) =>
            /\ CountCalls(r, "respond") = 1
            /\ TheCall(r, "respond") =
                   [op |-> "respond", message |-> Message(r), tool_result |-> None]
            /\ OutputIsAnswer(r)
            /\ (Done(r) /\ answer[r] = None) => Failed(r)

C12_Witness ==
    \E r \in Requests :
        /\ NonePlanned(r)
        /\ Done(r)
        /\ answer[r] # None /\ answer[r].text = "answer one"
        /\ outcome[r].kind = "response"
        /\ outcome[r].response.text = "answer one"

\* C13: once the ClientSession has been closed, no step issues a list_tools
\* or call_tool request, none is outstanding, the session stays closed, and
\* MCPClient.session is only ever assigned when it held no session (a closed
\* session is never put back in use).
C13_ClosedSessionNeverUsed ==
    [][ /\ sessionClosed =>
              /\ pending = {} /\ pending' = pending
              /\ calls' = calls
              /\ sessionClosed'
              /\ session' = session
        /\ session' # session => (session = "None" /\ ~sessionClosed) ]_vars

C13_Witness ==
    /\ sessionClosed
    /\ lifePc = "exited"
    /\ \E r \in Requests : HasCall(r, "call_tool") /\ Done(r)
    /\ \E r \in Requests : pc[r] = "idle"

\* the shared session: its handle, its status, and what it is made of
sessionVars == <<session, initialized, sessionClosed, exit_stack, procRunning>>

\* C14: a step of a request pipeline (one that changes any request's state),
\* successful or failing, leaves the session handle and its open/initialized
\* status unchanged; they change only in steps of lifespan.
C14_HandlersLeaveSession ==
    [][ reqVars' # reqVars => UNCHANGED sessionVars ]_vars

C14_Witness ==
    /\ lifePc = "serving"
    /\ session = "ClientSession" /\ initialized /\ ~sessionClosed /\ procRunning
    /\ \E r \in Requests : kind[r] = "chat" /\ Done(r) /\ Failed(r)
    /\ \E r \in Requests : kind[r] = "tools" /\ Done(r)

\* some chat request other than r has ended with a request-scoped error
OtherFailed(r) ==
    \E q \in Requests \ {r} : kind[q] = "chat" /\ Done(q) /\ Failed(q)

\* C15: while the service is serving, after another chat request has failed,
\* a request can be accepted, and an accepted chat request can take every
\* step of its pipeline up to a response: each step towards RESPONDED is
\* possible whatever the failed request left behind.
C15_ServiceAvailableAfterFailure ==
    \A r \in Requests :
        (lifePc = "serving" /\ OtherFailed(r)) =>
            /\ pc[r] = "idle" => ENABLED AcceptChat(r)
            /\ (pc[r] = "list_wait" /\ kind[r] = "chat") =>
                   ENABLED (ChatListReturn(r) /\ pc'[r] = "plan_wait")
            /\ pc[r] = "plan_wait" =>
                   /\ ENABLED (PlanReturn(r) /\ pc'[r] = "tool_wait")
                   /\ ENABLED (PlanReturn(r) /\ pc'[r] = "respond_wait")
            /\ pc[r] = "tool_wait" =>
                   ENABLED (ToolReturn(r) /\ pc'[r] = "respond_wait")
            /\ pc[r] = "respond_wait" =>
                   ENABLED (RespondReturn(r) /\ outcome'[r].kind = "response")

C15_Witness ==
    \E q, r \in Requests :
        /\ q # r
        /\ kind[q] = "chat" /\ Done(q) /\ Failed(q)
        /\ planExc[q] = "TimeoutException"
        /\ kind[r] = "chat" /\ Done(r) /\ outcome[r].kind = "response"
        /\ lifePc = "serving"

\* C16: for every tool list the session returns to GET /tools, the answer
\* holds as many descriptors, in the same order, each with the name, the
\* description and the input schema of the entry at its position.
C16_ToolOrderPreserved ==
    \A r \in Requests :
        (kind[r] = "tools" /\ Done(r) /\ listRes[r].kind = "tools") =>
            /\ outcome[r].kind = "tools"
            /\ Len(outcome[r].tools) = Len(listRes[r].tools)
            /\ \A i \in 1..Len(listRes[r].tools) :
                 /\ outcome[r].tools[i].name = listRes[r].tools[i].name
                 /\ outcome[r].tools[i].description = listRes[r].tools[i].description
                 /\ outcome[r].tools[i].input_schema = listRes[r].tools[i].inputSchema

C16_Witness ==
    \E r \in Requests :
        /\ kind[r] = "tools" /\ Done(r)
        /\ listRes[r] = [kind |-> "tools",
                         tools |-> <<Tool("send_email"), Tool("read_email")>>]
        /\ outcome[r].kind = "tools"
        /\ outcome[r].tools[1].name = "send_email"

\* ------------------------------------------------------ the email tool
\* self.contacts: the directory loaded from CONTACTS_PATH, name -> address
ContactNames == {"alice", "carol"}
Contacts == [n \in ContactNames |-> n \o "@example.com"]

\* str.lower on the names used here
Lower(n) == IF n = "Alice" THEN "alice" ELSE n

\* an optional list of names: None, or a list
NameList(items) == [type |-> "list", items |-> items]

EmailRecipients == {"alice", "Alice", "bob"}
EmailLists == {None, NameList(<<>>), NameList(<<"carol">>), NameList(<<"bob">>)}

KeyError == [kind |-> "raised", exc |-> "KeyError"]

\* get_contact_email: self.contacts[input.lower()]
get_contact_email(input) ==
    IF Lower(input) \in DOMAIN Contacts
      THEN [kind |-> "value", value |-> Contacts[Lower(input)]]
      ELSE KeyError

\* get_list_emails: None for a missing or empty list, else the address of
\* every name, looked up as written
get_list_emails(input) ==
    IF input = None \/ input.items = <<>>
      THEN [kind |-> "value", value |-> None]
    ELSE IF \E i \in 1..Len(input.items) : input.items[i] \notin DOMAIN Contacts
      THEN KeyError
    ELSE [kind |-> "value",
          value |-> [i \in 1..Len(input.items) |-> Contacts[input.items[i]]]]

\* send_email, the lookups at the top of its try block: the exception they
\* raise ("none": none); the handler of the try catches HttpError only
SendEmailLookupException(args) ==
    IF get_contact_email(args.to) = KeyError THEN "KeyError"
    ELSE IF get_list_emails(args.bcc) = KeyError THEN "KeyError"
    ELSE IF get_list_emails(args.cc) = KeyError THEN "KeyError"
    ELSE "none"

\* the EmailMessage send_email builds
EmailMessage(args) ==
    [to |-> get_contact_email(args.to).value,
     cc |-> get_list_emails(args.cc).value,
     bcc |-> get_list_emails(args.bcc).value]

\* send_email is called with arguments drawn from the sets above
EmailInit ==
    /\ ServiceInit
    /\ emailPc = "called"
    /\ emailArgs \in [to : EmailRecipients, cc : EmailLists, bcc : EmailLists]
    /\ emailResult = None
    /\ sent = <<>>

\* send_email: the recipients are resolved and the message is built; a
\* KeyError of a lookup leaves send_email uncaught
SendEmailResolve ==
    /\ emailPc = "called"
    /\ IF SendEmailLookupException(emailArgs) # "none"
         THEN /\ emailResult' = [kind |-> "raised",
                                 exc |-> SendEmailLookupException(emailArgs)]
              /\ emailPc' = "done"
         ELSE /\ emailPc' = "sending"
              /\ UNCHANGED emailResult
    /\ UNCHANGED <<emailArgs, sent>>
    /\ UNCHANGED lifeVars
    /\ UNCHANGED reqVars

\* send_email: messages().send(...).execute() returns, or raises HttpError,
\* which the handler turns into the error dict
SendEmailExecute ==
    /\ emailPc = "sending"
    /\ sent' = Append(sent, EmailMessage(emailArgs))
    /\ \E ok \in BOOLEAN :
         emailResult' = [kind |-> "returned",
                         status |-> IF ok THEN "success" ELSE "error"]
    /\ emailPc' = "done"
    /\ UNCHANGED emailArgs
    /\ UNCHANGED lifeVars
    /\ UNCHANGED reqVars

NextEmail == SendEmailResolve \/ SendEmailExecute

SpecEmail == EmailInit /\ [][NextEmail]_vars

\* the recipient of the call is absent from the contact directory
RecipientAbsent == emailArgs # None /\ Lower(emailArgs.to) \notin DOMAIN Contacts

\* C17: a recipient name absent from the contact directory makes send_email
\* return its error outcome instead of leaving by an uncaught exception, and
\* no message is handed to the mail service.
C17_AbsentRecipientIsToolError ==
    (emailPc = "done" /\ RecipientAbsent) =>
        /\ emailResult.kind = "returned"
        /\ emailResult.status = "error"
        /\ sent = <<>>

\* every call of kind a that r made comes before every call of kind b
CallsBefore(r, a, b) ==
    \A j \in 1..Len(calls[r]) :
        calls[r][j].op = b =>
            \A i \in 1..Len(calls[r]) : calls[r][i].op = a => i < j

\* the place of each kind of call in chat's pipeline
CallRank(o) ==
    CASE o = "generate_plan" -> 1
      [] o = "list_tools" -> 2
      [] o = "plan" -> 3
      [] o = "call_tool" -> 4
      [] o = "respond" -> 5

\* C18: a chat request, on success and on failure alike, calls generate_plan
\* exactly once (with one list_tools round-trip and at most one planning
\* POST), call_tool at most once and respond at most once, in that order:
\* its calls start with generate_plan and go strictly up in the pipeline.
C18_NoRetries ==
    \A r \in Requests :
        kind[r] = "chat" =>
            /\ Len(calls[r]) >= 2
            /\ calls[r][1].op = "generate_plan"
            /\ calls[r][2].op = "list_tools"
            /\ \A i \in 1..(Len(calls[r]) - 1) :
                 CallRank(calls[r][i].op) < CallRank(calls[r][i + 1].op)

C18_Witness ==
    \E r \in Requests :
        /\ kind[r] = "chat" /\ Done(r) /\ Failed(r)
        /\ respExc[r] = "TimeoutException"
        /\ CountCalls(r, "call_tool") = 1
        /\ CountCalls(r, "respond") = 1

\* ------------------------------------------------------------ termination
\* the awaited call of r completes and its handler runs on
Return(r) ==
    \/ ToolsListReturn(r)
    \/ ChatListReturn(r)
    \/ PlanReturn(r)
    \/ ToolReturn(r)
    \/ RespondReturn(r)

\* every awaited call completes: a session round-trip returns or raises, a
\* POST to the completion service answers or runs into its 35 s timeout, and
\* the event loop resumes the handler
Fairness == \A r \in Requests : WF_vars(Return(r))

SpecLive == Init /\ [][Next]_vars /\ Fairness

\* r has not been accepted, or it has ended with its one outcome: a chat
\* request with a response or an error
Settled(r) ==
    \/ pc[r] = "idle"
    \/ /\ Done(r)
       /\ kind[r] = "chat" => outcome[r].kind \in {"response", "error"}
       /\ kind[r] = "tools" => outcome[r].kind \in {"tools", "error"}

\* C19: every accepted request eventually ends, a chat request with a
\* response or an error: from some point on no request is in flight any more
\* (requests are accepted finitely often), and what a caller received never
\* changes afterwards.
C19_ChatTerminates ==
    /\ <>[](\A r \in Requests : Settled(r))
    /\ [][ \A r \in Requests : Done(r) => (Done(r)' /\ outcome'[r] = outcome[r]) ]_vars

C19_Witness ==
    \E r \in Requests :
        /\ kind[r] = "chat" /\ Done(r)
        /\ planExc[r] = "TimeoutException"
        /\ outcome[r].kind = "error"

\* the list_tools round-trip of chat request r failed
ListFailed(r) == kind[r] = "chat" /\ planExc[r] = "McpError"

\* C20: a chat request makes its one list_tools round-trip before its
\* planning POST; when that round-trip fails, the planning POST is not sent,
\* no tool is called, respond is not called, and the request ends with an
\* error.
C20_ListToolsBeforePlan ==
    \A r \in Requests :
        kind[r] = "chat" =>
            /\ CallsBefore(r, "list_tools", "plan")
            /\ HasCall(r, "plan") =>
                 (CountCalls(r, "list_tools") = 1 /\ <<r, "list_tools">> \notin pending)
            /\ ListFailed(r) =>
                 /\ ~HasCall(r, "plan")
                 /\ planReply[r] = None
                 /\ ~HasCall(r, "call_tool")
                 /\ ~HasCall(r, "respond")
                 /\ Done(r) /\ Failed(r)

C20_Witness ==
    \E r, q \in Requests :
        /\ ListFailed(r) /\ Done(r) /\ Failed(r)
        /\ kind[q] = "chat" /\ HasCall(q, "plan")

====
